---------------------------- MODULE Spec2Model ----------------------------
(***************************************************************************)
(* WebMusic AI Lyrics Service (src/AI/Lyrics/app.py).                      *)
(*                                                                         *)
(* The model follows POST /transcribe (transcribe_audio), the SMB fetch it *)
(* drives (download_smb_file), GET /health (health_check) and the          *)
(* timestamp formatter (format_timestamp).  One request is a process whose *)
(* position is pc[r]; the SMB server, the local disk and the Whisper model *)
(* are the environment and choose their outcomes nondeterministically.     *)
(***************************************************************************)
EXTENDS Integers, Sequences, FiniteSets, TLC

(***************************************************************************)
(* Bounds of the model.                                                    *)
(***************************************************************************)
NumReqs == 2          \* requests the service receives
MaxChunks == 1        \* remote files hold up to MaxChunks full chunks (+ a tail)
MaxShort == 1         \* short reads a non-conforming server may serve per fetch
MaxSegs == 2          \* segments the model yields for one audio file
MaxDays == 1          \* whole days in the start times given to format_timestamp

(***************************************************************************)
(* Program constants.                                                      *)
(***************************************************************************)
ChunkSize == 65536            \* file_open.read(offset, 65536)
SecondsPerDay == 86400        \* timedelta.seconds is the part below one day
MicrosPerSecond == 1000000    \* timedelta.microseconds is the part below one second

Reqs == 1 .. NumReqs
Paths == 1 .. NumReqs         \* names tempfile may hand out

\* NT status codes as <<high 16 bits, low 16 bits>>.
STATUS_END_OF_FILE == <<49152, 17>>            \* 0xC0000011
STATUS_ACCESS_DENIED == <<49152, 34>>          \* 0xC0000022
STATUS_OBJECT_NAME_NOT_FOUND == <<49152, 52>>  \* 0xC0000034
STATUS_LOGON_FAILURE == <<49152, 109>>         \* 0xC000006D
STATUS_BAD_NETWORK_NAME == <<49152, 204>>      \* 0xC00000CC
NoStatus == <<0, 0>>

MODEL_SIZE == "tiny"

(***************************************************************************)
(* Values.                                                                 *)
(***************************************************************************)
NoExc == [type |-> "none", status |-> NoStatus]
SmbExc(s) == [type |-> "SMBResponseException", status |-> s]
OtherExc(t) == [type |-> t, status |-> NoStatus]

NoFile == [exists |-> FALSE, owner |-> 0, data |-> <<>>]
NoResp == [status |-> 0, detail |-> [text |-> "", status |-> NoStatus], body |-> <<>>]
NoCfg == [present |-> FALSE, host |-> "", share |-> "", username |-> "",
          password |-> "", file_path |-> ""]
CfgOf(r) == [present |-> TRUE, host |-> "host", share |-> "share",
             username |-> "user", password |-> "secret", file_path |-> "a/b.wav"]

Min(a, b) == IF a < b THEN a ELSE b


(***************************************************************************)
(* format_timestamp (app.py 30-34, transcribe.py 6-12).  A float number of *)
(* seconds is held as whole seconds, microseconds and tenths of a          *)
(* microsecond.  timedelta(seconds=x) rounds x to the nearest microsecond, *)
(* halves to the even one, and normalises the result to days, seconds      *)
(* (0..86399) and microseconds (0..999999).                                *)
(***************************************************************************)
Float(s, u, b) == [sec |-> s, us |-> u, sub |-> b]
Time(s, u) == Float(s, u, 0)

\* The microseconds of t after rounding: 0 .. MicrosPerSecond.
RoundedMicros(t) ==
    IF t.sub > 5 \/ (t.sub = 5 /\ t.us % 2 = 1) THEN t.us + 1 ELSE t.us
RoundedSeconds(t) == t.sec + RoundedMicros(t) \div MicrosPerSecond

TdDays(t) == RoundedSeconds(t) \div SecondsPerDay
TdSeconds(t) == RoundedSeconds(t) % SecondsPerDay
TdMicroseconds(t) == RoundedMicros(t) % MicrosPerSecond

format_timestamp(t) ==
    LET minutes == TdSeconds(t) \div 60
        remaining_seconds == TdSeconds(t) % 60
        milliseconds == TdMicroseconds(t) \div 10000
    IN  <<minutes, remaining_seconds, milliseconds>>

(***************************************************************************)
(* str.strip() and " ".join() on texts held as sequences of characters.    *)
(***************************************************************************)
IsSpace(c) == c = " "

RECURSIVE LStrip(_)
LStrip(s) == IF s # <<>> /\ IsSpace(Head(s)) THEN LStrip(Tail(s)) ELSE s

RECURSIVE RStrip(_)
RStrip(s) == IF s # <<>> /\ IsSpace(s[Len(s)])
             THEN RStrip(SubSeq(s, 1, Len(s) - 1)) ELSE s

Strip(s) == RStrip(LStrip(s))

\* Mutant: "".join, no separator.
RECURSIVE JoinNoSeparator(_)
JoinNoSeparator(ts) == IF ts = <<>> THEN <<>> ELSE ts[1] \o JoinNoSeparator(Tail(ts))

RECURSIVE Join(_)
Join(ts) == IF ts = <<>> THEN <<>>
            ELSE IF Len(ts) = 1 THEN ts[1]
            ELSE ts[1] \o <<" ">> \o Join(Tail(ts))

(***************************************************************************)
(* What the model's lazy generator can yield next: a segment that starts   *)
(* no earlier than the segments before it (the adapter's contract).        *)
(***************************************************************************)
Seg(t, x) == [start |-> t, text |-> x]
SegPool == { Seg(Time(0, 0), <<" ", "l", "a">>),
             Seg(Time(65, 256000), <<"o", "h", " ">>),
             Seg(Time(3600, 0), <<"y", "e">>) }

TimeLeq(a, b) ==
    \/ a.sec < b.sec
    \/ a.sec = b.sec /\ a.us < b.us
    \/ a.sec = b.sec /\ a.us = b.us /\ a.sub <= b.sub

NextSegments(sofar) ==
    { sg \in SegPool : sofar = <<>> \/ TimeLeq(sofar[Len(sofar)].start, sg.start) }

Info == [language |-> "en", language_probability |-> 1]

(***************************************************************************)
(* The scratch file holds the pieces <<offset, length>> of the remote file *)
(* that were written to it, in the order of the writes.                    *)
(***************************************************************************)
RECURSIVE DataLen(_)
DataLen(d) == IF d = <<>> THEN 0 ELSE d[1][2] + DataLen(Tail(d))

\* The data is the remote file's bytes [0, DataLen): every piece starts where
\* the previous one ended.
IsPrefixOfRemote(d) ==
    \A i \in 1 .. Len(d) : d[i][1] = DataLen(SubSeq(d, 1, i - 1))

Sizes == { k * ChunkSize + t : k \in 0 .. MaxChunks, t \in {0, 1, ChunkSize - 1} }
CeilDiv(a, b) == (a + b - 1) \div b

(***************************************************************************)
(* The SMB server: what one read request at offset off for len bytes of a  *)
(* remote file of size bytes can produce.  A conforming server ("full")    *)
(* returns all the bytes it has up to len; a "lossy" one may return fewer, *)
(* or signal the end early.  Any read may fail with another status or with *)
(* a fault below the protocol.                                             *)
(***************************************************************************)
ReadRes(k, n, e) == [kind |-> k, n |-> n, exc |-> e]

ReadOutcomes(size, mode, off, len, shortUsed, mayFail) ==
    LET avail == IF off < size THEN Min(len, size - off) ELSE 0
        ends  == { ReadRes("zero", 0, NoExc),
                   ReadRes("raise", 0, SmbExc(STATUS_END_OF_FILE)) }
        fails == IF mayFail
                 THEN { ReadRes("raise", 0, SmbExc(STATUS_ACCESS_DENIED)),
                        ReadRes("raise", 0, OtherExc("TimeoutError")) }
                 ELSE {}
        full  == IF avail > 0 THEN { ReadRes("data", avail, NoExc) } ELSE ends
        short == IF mode = "lossy" /\ shortUsed < MaxShort
                 THEN { ReadRes("data", n, NoExc) :
                          n \in { m \in {1, avail \div 2} : 0 < m /\ m < avail } }
                 ELSE {}
        early == IF mode = "lossy" THEN ends ELSE {}
    IN  full \cup short \cup early \cup fails

(***************************************************************************)
(* State.                                                                  *)
(***************************************************************************)
VARIABLES
    model,        \* the module-level model: "WhisperModel", or "None" if loading failed
    health,       \* the last answer of GET /health
    disk,         \* path -> file: the temporary directory
    log,          \* r -> the records logged while handling request r
    pc,           \* r -> where request r stands
    req,          \* r -> the body of request r
    tmp_path,     \* r -> tmp_path of transcribe_audio (0: not allocated)
    exc,          \* r -> the exception in flight
    resp,         \* r -> the response of request r
    conn,         \* r -> state of the Connection
    handle,       \* r -> state of the Open: none, Created, Opened, Closed, CloseFailed
    offset,       \* r -> offset of download_smb_file
    readLog,      \* r -> the reads issued: [off, len, res]
    connects,     \* r -> calls of connection.connect()
    opens,        \* r -> calls of file_open.create()
    closes,       \* r -> calls of file_open.close()
    disconnects,  \* r -> calls of connection.disconnect()
    fetchOut,     \* r -> how download_smb_file ended
    invocations,  \* r -> calls of model.transcribe
    audio,        \* r -> the file the model was given
    yielded,      \* r -> the segments the generator has yielded
    exhausted,    \* r -> the generator has ended
    lines,        \* r -> lines of transcribe_audio
    full_text,    \* r -> full_text of transcribe_audio
    remoteSize,   \* r -> size in bytes of the remote file
    srvMode,      \* r -> "full" or "lossy": the server of request r
    segLimit,     \* r -> the most segments the audio of r holds
    faulty,       \* r -> the steps at which the environment of r may fail
    fmtIn,        \* the argument of a call of format_timestamp
    fmtOut        \* the result of that call (<<>>: not called)

globalVars == <<model, health, disk, log>>
fetchVars == <<conn, handle, offset, readLog, connects, opens, closes, disconnects,
               fetchOut>>
asrVars == <<invocations, audio, yielded, exhausted, lines, full_text>>
envVars == <<remoteSize, srvMode, segLimit, faulty, fmtIn, fmtOut>>
vars == <<model, health, disk, log, pc, req, tmp_path, exc, resp, conn, handle,
          offset, readLog, connects, opens, closes, disconnects, fetchOut,
          invocations, audio,
          yielded, exhausted, lines, full_text, remoteSize, srvMode, segLimit, faulty,
          fmtIn, fmtOut>>

\* The steps of a request that depend on the network, the disk or the model.
FaultPoints == {"connect", "session", "tree", "create", "openlocal", "read",
                "write", "close", "disconnect", "transcribe", "segments"}

MayFail(r, step) == step \in faulty[r]

(***************************************************************************)
(* Startup (app.py 20-27): the model is loaded once; a failure leaves None.*)
(* The requests in rs will arrive; the others never do.                    *)
(***************************************************************************)
InitWith(rs, sizes, modes, segs, faults) ==
    /\ model \in {"WhisperModel", "None"}
    /\ health = [status |-> 0, body |-> <<>>]
    /\ disk = [p \in Paths |-> NoFile]
    /\ log = [r \in Reqs |-> <<>>]
    /\ pc = [r \in Reqs |-> IF r \in rs THEN "idle" ELSE "absent"]
    /\ req = [r \in Reqs |-> [smb_config |-> NoCfg, language |-> ""]]
    /\ tmp_path = [r \in Reqs |-> 0]
    /\ exc = [r \in Reqs |-> NoExc]
    /\ resp = [r \in Reqs |-> NoResp]
    /\ conn = [r \in Reqs |-> "none"]
    /\ handle = [r \in Reqs |-> "none"]
    /\ offset = [r \in Reqs |-> 0]
    /\ readLog = [r \in Reqs |-> <<>>]
    /\ connects = [r \in Reqs |-> 0]
    /\ opens = [r \in Reqs |-> 0]
    /\ closes = [r \in Reqs |-> 0]
    /\ disconnects = [r \in Reqs |-> 0]
    /\ fetchOut = [r \in Reqs |-> "none"]
    /\ invocations = [r \in Reqs |-> 0]
    /\ audio = [r \in Reqs |-> NoFile]
    /\ yielded = [r \in Reqs |-> <<>>]
    /\ exhausted = [r \in Reqs |-> FALSE]
    /\ lines = [r \in Reqs |-> <<>>]
    /\ full_text = [r \in Reqs |-> <<>>]
    /\ remoteSize \in [Reqs -> sizes]
    /\ srvMode \in [Reqs -> modes]
    /\ segLimit = [r \in Reqs |-> segs]
    /\ faulty = [r \in Reqs |-> faults]
    /\ fmtOut = <<>>
    /\ \A r \in Reqs \ rs : remoteSize[r] = 0 /\ srvMode[r] = "full"

\* One request, any remote file, any server, any audio.
Init == InitWith({1}, Sizes, {"full", "lossy"}, MaxSegs, FaultPoints) /\ fmtIn = Time(0, 0)

\* All requests, concurrently, each with an audio of no segment, against a
\* conforming server that may refuse the logon or the share, and a model
\* that may fault.
ConcFaults == {"session", "tree", "transcribe", "segments"}
InitConc == InitWith(Reqs, {1}, {"full"}, 0, ConcFaults) /\ fmtIn = Time(0, 0)

\* No request: format_timestamp alone, on start times around the minute, the
\* hour and the day, with and without a part below the microsecond.
FmtSeconds == { d * SecondsPerDay + h * 3600 + m * 60 + x :
                  d \in 0 .. MaxDays, h \in {0, 1, 23}, m \in {0, 1, 59}, x \in {0, 5, 59} }
FmtInputs == { Float(x, u, b) : x \in FmtSeconds,
                                u \in {0, 9999, 256000, 999999},
                                b \in {0, 4, 5, 6} }
InitFmt == InitWith({}, {0}, {"full"}, 0, {}) /\ fmtIn \in FmtInputs

(***************************************************************************)
(* GET /health (app.py 36-40).                                             *)
(***************************************************************************)
\* Mutant: the probe does not look at the model.
HealthResponseAlwaysOk(m) ==
    [status |-> 200, body |-> <<[status |-> "ok", model |-> MODEL_SIZE]>>]

HealthResponse(m) ==
    IF m = "None"
    THEN [status |-> 503, body |-> <<[detail |-> "Model not loaded"]>>]
    ELSE [status |-> 200, body |-> <<[status |-> "ok", model |-> MODEL_SIZE]>>]

health_check ==
    /\ health' = HealthResponse(model)
    /\ UNCHANGED <<model, disk, log, pc, req, tmp_path, exc, resp>>
    /\ UNCHANGED <<fetchVars, asrVars, envVars>>

(***************************************************************************)
(* POST /transcribe, entry (app.py 104-109).                               *)
(***************************************************************************)
HttpError(code, text) ==
    [status |-> code, detail |-> [text |-> text, status |-> NoStatus], body |-> <<>>]

\* Mutant: the check of smb_config is missing.
EntryCheckModelOnly(m, body) == IF m = "None" THEN 503 ELSE 0

\* The status with which the entry checks reject a request; 0: not rejected.
EntryCheck(m, body) ==
    IF m = "None" THEN 503
    ELSE IF ~body.smb_config.present THEN 400
    ELSE 0

EntryDetail(code) ==
    IF code = 503 THEN "Model not initialized"
    ELSE "SMB Config required (Local files not supported in this mode)"

Receive(r) ==
    /\ pc[r] = "idle"
    /\ \E cfg \in {NoCfg, CfgOf(r)} :
         LET body == [smb_config |-> cfg, language |-> "en"]
             code == EntryCheck(model, body)
         IN  /\ req' = [req EXCEPT ![r] = body]
             /\ IF code # 0
                THEN /\ resp' = [resp EXCEPT ![r] = HttpError(code, EntryDetail(code))]
                     /\ pc' = [pc EXCEPT ![r] = "done"]
                ELSE /\ resp' = resp
                     /\ pc' = [pc EXCEPT ![r] = "alloc"]
    /\ UNCHANGED <<globalVars, tmp_path, exc, fetchVars, asrVars, envVars>>

(***************************************************************************)
(* tempfile.NamedTemporaryFile(delete=False, suffix=".wav") (app.py        *)
(* 111-113): creates, exclusively, an empty file under a name no existing  *)
(* file has.                                                               *)
(***************************************************************************)
NewFile(r) == [exists |-> TRUE, owner |-> r, data |-> <<>>]

\* Mutant: the scratch file has a fixed name.
FixedPath(d) == {1}

FreshPaths(d) == { p \in Paths : ~d[p].exists }

AllocateScratch(r) ==
    /\ pc[r] = "alloc"
    /\ \E p \in FreshPaths(disk) :
         /\ disk' = [disk EXCEPT ![p] = NewFile(r)]
         /\ tmp_path' = [tmp_path EXCEPT ![r] = p]
    /\ pc' = [pc EXCEPT ![r] = "download"]
    /\ UNCHANGED <<model, health, log, req, exc, resp, fetchVars, asrVars, envVars>>

(***************************************************************************)
(* download_smb_file (app.py 65-101).                                      *)
(***************************************************************************)
LogRecord(level, text, args) == [level |-> level, text |-> text, args |-> args]

\* app.py 66-67: the log line and the Connection object.
ConnectingRecord(cfg) ==
    LogRecord("info", "Connecting to SMB", <<cfg.host, cfg.share, cfg.file_path>>)

DownloadStart(r) ==
    /\ pc[r] = "download"
    /\ log' = [log EXCEPT ![r] = Append(@, ConnectingRecord(req[r].smb_config))]
    /\ conn' = [conn EXCEPT ![r] = "created"]
    /\ pc' = [pc EXCEPT ![r] = "connect"]
    /\ UNCHANGED <<model, health, disk, req, tmp_path, exc, resp, handle, offset,
                   readLog, closes, disconnects, fetchOut, connects, opens, asrVars, envVars>>

\* Mutant: a failed setup step starts the connection again.
AfterSetupFailureRetry == "connect"

\* Mutant: the setup steps stand before the outer try.
AfterSetupFailureNoFinally == "except"

\* Where control goes when a step of the outer try (app.py 69-81) raises:
\* to the outer finally.
AfterSetupFailure == "disconnect"

\* app.py 69: connection.connect()
Connect(r) ==
    /\ pc[r] = "connect"
    /\ connects' = [connects EXCEPT ![r] = @ + 1]
    /\ \/ /\ conn' = [conn EXCEPT ![r] = "connected"]
          /\ pc' = [pc EXCEPT ![r] = "session"]
          /\ exc' = exc
       \/ /\ MayFail(r, "connect")
          /\ exc' = [exc EXCEPT ![r] = OtherExc("ConnectionError")]
          /\ pc' = [pc EXCEPT ![r] = AfterSetupFailure]
          /\ conn' = conn
    /\ UNCHANGED <<globalVars, req, tmp_path, resp, handle, offset, readLog, closes,
                   disconnects, fetchOut, opens, asrVars, envVars>>

\* app.py 70-71: Session(connection, username, password).connect()
SessionConnect(r) ==
    /\ pc[r] = "session"
    /\ \/ /\ pc' = [pc EXCEPT ![r] = "tree"]
          /\ exc' = exc
       \/ /\ MayFail(r, "session")
          /\ exc' = [exc EXCEPT ![r] = SmbExc(STATUS_LOGON_FAILURE)]
          /\ pc' = [pc EXCEPT ![r] = AfterSetupFailure]
    /\ UNCHANGED <<globalVars, req, tmp_path, resp, fetchVars, asrVars, envVars>>

\* app.py 72-73: TreeConnect(session, share).connect()
TreeConnect(r) ==
    /\ pc[r] = "tree"
    /\ \/ /\ pc' = [pc EXCEPT ![r] = "create"]
          /\ exc' = exc
       \/ /\ MayFail(r, "tree")
          /\ exc' = [exc EXCEPT ![r] = SmbExc(STATUS_BAD_NETWORK_NAME)]
          /\ pc' = [pc EXCEPT ![r] = AfterSetupFailure]
    /\ UNCHANGED <<globalVars, req, tmp_path, resp, fetchVars, asrVars, envVars>>

\* Mutant: file_open.create stands inside the inner try.
AfterCreateFailureInTry == "close"

\* Where control goes when file_open.create raises (app.py 76-81): the call
\* stands before the inner try, so to the outer finally.
AfterCreateFailure == "disconnect"

\* app.py 75-81: Open(tree, path) and file_open.create(...)
CreateOpen(r) ==
    /\ pc[r] = "create"
    /\ opens' = [opens EXCEPT ![r] = @ + 1]
    /\ \/ /\ handle' = [handle EXCEPT ![r] = "Opened"]
          /\ pc' = [pc EXCEPT ![r] = "openlocal"]
          /\ exc' = exc
       \/ /\ MayFail(r, "create")
          /\ \E s \in {STATUS_OBJECT_NAME_NOT_FOUND, STATUS_ACCESS_DENIED} :
               exc' = [exc EXCEPT ![r] = SmbExc(s)]
          /\ handle' = [handle EXCEPT ![r] = "Created"]
          /\ pc' = [pc EXCEPT ![r] = AfterCreateFailure]
    /\ UNCHANGED <<globalVars, req, tmp_path, resp, conn, offset, readLog, closes,
                   disconnects, fetchOut, connects, asrVars, envVars>>

\* Mutant: the loop is not wrapped in try/finally.
AfterInnerTryNoClose == "disconnect"

\* Where control goes when the inner try (app.py 82-97) is left, by break or
\* by an exception: to the inner finally.
AfterInnerTry == "close"

\* app.py 83-84: open(local_path, 'wb') creates or truncates the file.
OpenLocal(r) ==
    /\ pc[r] = "openlocal"
    /\ \/ /\ disk' = [disk EXCEPT ![tmp_path[r]] =
                        IF @.exists THEN [@ EXCEPT !.data = <<>>] ELSE NewFile(r)]
          /\ offset' = [offset EXCEPT ![r] = 0]
          /\ pc' = [pc EXCEPT ![r] = "read"]
          /\ exc' = exc
       \/ /\ MayFail(r, "openlocal")
          /\ exc' = [exc EXCEPT ![r] = OtherExc("OSError")]
          /\ pc' = [pc EXCEPT ![r] = AfterInnerTry]
          /\ UNCHANGED <<disk, offset>>
    /\ UNCHANGED <<model, health, log, req, tmp_path, resp, conn, handle, readLog,
                   closes, disconnects, fetchOut, connects, opens, asrVars, envVars>>

\* app.py 88: the length every read asks for.
ReadLength == ChunkSize

\* Mutant: the status is compared with its signed 32-bit reading, -1073741807.
IsEndOfFileSigned(e) == e.type = "SMBResponseException" /\ e.status = <<-16384, 17>>

\* app.py 95: the status that ends the loop.
IsEndOfFile(e) == e.type = "SMBResponseException" /\ e.status = STATUS_END_OF_FILE

\* Mutant: the offset advances by the length asked for.
NextOffsetByChunk(off, n) == off + ChunkSize

\* app.py 92: offset += len(data)
NextOffset(off, n) == off + n

\* Mutant: the loop also breaks, before the write, on a read that is not full.
IsShortData(n) == n < ChunkSize

\* app.py 89-90: if not data: break
IsEmptyData(n) == n = 0

ShortReads(rl) ==
    Cardinality({ i \in 1 .. Len(rl) :
                    rl[i].res.kind = "data" /\ rl[i].res.n < rl[i].len })

\* app.py 85-97: one iteration of the loop.
Read(r) ==
    /\ pc[r] = "read"
    /\ \E res \in ReadOutcomes(remoteSize[r], srvMode[r], offset[r], ReadLength,
                               ShortReads(readLog[r]), MayFail(r, "read")) :
         /\ readLog' = [readLog EXCEPT ![r] =
                          Append(@, [off |-> offset[r], len |-> ReadLength, res |-> res])]
         /\ IF res.kind = "raise"
            THEN \* except SMBResponseException (93-97), or any other exception
                 /\ IF IsEndOfFile(res.exc)
                    THEN /\ exc' = exc
                    ELSE /\ exc' = [exc EXCEPT ![r] = res.exc]
                 /\ pc' = [pc EXCEPT ![r] = AfterInnerTry]
                 /\ UNCHANGED <<disk, offset>>
            ELSE IF IsEmptyData(res.n)
            THEN /\ pc' = [pc EXCEPT ![r] = AfterInnerTry]
                 /\ UNCHANGED <<disk, offset, exc>>
            ELSE \* f.write(data), which may fail, then offset += len(data)
                 \/ /\ disk' = [disk EXCEPT ![tmp_path[r]].data =
                                  Append(@, <<offset[r], res.n>>)]
                    /\ offset' = [offset EXCEPT ![r] = NextOffset(@, res.n)]
                    /\ UNCHANGED <<pc, exc>>
                 \/ /\ MayFail(r, "write")
                    /\ exc' = [exc EXCEPT ![r] = OtherExc("OSError")]
                    /\ pc' = [pc EXCEPT ![r] = AfterInnerTry]
                    /\ UNCHANGED <<disk, offset>>
    /\ UNCHANGED <<model, health, log, req, tmp_path, resp, conn, handle, closes,
                   disconnects, fetchOut, connects, opens, asrVars, envVars>>

\* app.py 98-99: finally: file_open.close()
CloseHandle(r) ==
    /\ pc[r] = "close"
    /\ closes' = [closes EXCEPT ![r] = @ + 1]
    /\ \/ /\ handle' = [handle EXCEPT ![r] = "Closed"]
          /\ exc' = exc
       \/ /\ MayFail(r, "close")
          /\ exc' = [exc EXCEPT ![r] = OtherExc("CloseError")]
          /\ handle' = [handle EXCEPT ![r] = "CloseFailed"]
    /\ pc' = [pc EXCEPT ![r] = "disconnect"]
    /\ UNCHANGED <<globalVars, req, tmp_path, resp, conn, offset, readLog,
                   disconnects, fetchOut, connects, opens, asrVars, envVars>>

\* What download_smb_file hands to its caller: "ok", or the exception's type.
FetchResult(e) == IF e = NoExc THEN "ok" ELSE "raised"

\* Mutant: the caller goes on after a fetch that raised.
AfterDownloadSwallowed(e) == "transcribe"

\* app.py 117, 146: where transcribe_audio stands after download_smb_file.
AfterDownload(e) == IF e = NoExc THEN "transcribe" ELSE "except"

\* app.py 100-101: finally: connection.disconnect()
Disconnect(r) ==
    /\ pc[r] = "disconnect"
    /\ disconnects' = [disconnects EXCEPT ![r] = @ + 1]
    /\ \/ /\ conn' = [conn EXCEPT ![r] = "disconnected"]
          /\ exc' = exc
       \/ /\ MayFail(r, "disconnect")
          /\ exc' = [exc EXCEPT ![r] = OtherExc("DisconnectError")]
          /\ conn' = conn
    /\ fetchOut' = [fetchOut EXCEPT ![r] = FetchResult(exc'[r])]
    /\ pc' = [pc EXCEPT ![r] = AfterDownload(exc'[r])]
    /\ UNCHANGED <<globalVars, req, tmp_path, resp, handle, offset, readLog, closes, connects, opens,
                   asrVars, envVars>>

(***************************************************************************)
(* POST /transcribe, the pipeline (app.py 115-151).                        *)
(***************************************************************************)
TranscribingRecord(path, lang) ==
    LogRecord("info", "Transcribing downloaded file", <<path, lang>>)

\* app.py 119-129: the log line, model.transcribe(tmp_path, ...), the two lists.
Transcribe(r) ==
    /\ pc[r] = "transcribe"
    /\ log' = [log EXCEPT ![r] =
                 Append(@, TranscribingRecord(tmp_path[r], req[r].language))]
    /\ invocations' = [invocations EXCEPT ![r] = @ + 1]
    /\ audio' = [audio EXCEPT ![r] = disk[tmp_path[r]]]
    /\ \/ /\ lines' = [lines EXCEPT ![r] = <<>>]
          /\ full_text' = [full_text EXCEPT ![r] = <<>>]
          /\ pc' = [pc EXCEPT ![r] = "segments"]
          /\ exc' = exc
       \/ /\ MayFail(r, "transcribe")
          /\ exc' = [exc EXCEPT ![r] = OtherExc("RuntimeError")]
          /\ pc' = [pc EXCEPT ![r] = "except"]
          /\ UNCHANGED <<lines, full_text>>
    /\ UNCHANGED <<model, health, disk, req, tmp_path, resp, fetchVars, yielded,
                   exhausted, envVars>>

\* app.py 132-137: one entry of lines.
Line(segment) ==
    [time |-> format_timestamp(segment.start), text |-> Strip(segment.text)]

\* app.py 140-145: the body of the 200 response.
OkResponse(info, ls, ft) ==
    [status |-> 200,
     detail |-> [text |-> "", status |-> NoStatus],
     body |-> << [language |-> info.language,
                  language_prob |-> info.language_probability,
                  segments |-> ls,
                  full_text |-> Join(ft)] >>]

\* app.py 131-145: the for loop pulls the next segment from the lazy generator,
\* which yields it, is exhausted (the handler returns), or faults.
NextSegment(r) ==
    /\ pc[r] = "segments"
    /\ \/ /\ Len(yielded[r]) < segLimit[r]
          /\ \E segment \in NextSegments(yielded[r]) :
                /\ yielded' = [yielded EXCEPT ![r] = Append(@, segment)]
                /\ lines' = [lines EXCEPT ![r] = Append(@, Line(segment))]
                /\ full_text' = [full_text EXCEPT ![r] = Append(@, Line(segment).text)]
          /\ UNCHANGED <<pc, exc, resp, exhausted>>
       \/ /\ exhausted' = [exhausted EXCEPT ![r] = TRUE]
          /\ resp' = [resp EXCEPT ![r] = OkResponse(Info, lines[r], full_text[r])]
          /\ pc' = [pc EXCEPT ![r] = "finally"]
          /\ UNCHANGED <<exc, yielded, lines, full_text>>
       \/ /\ MayFail(r, "segments")
          /\ exc' = [exc EXCEPT ![r] = OtherExc("RuntimeError")]
          /\ pc' = [pc EXCEPT ![r] = "except"]
          /\ UNCHANGED <<resp, yielded, exhausted, lines, full_text>>
    /\ UNCHANGED <<globalVars, req, tmp_path, fetchVars, invocations, audio, envVars>>

\* str(e)
StrOf(e) == [text |-> e.type, status |-> e.status]

\* app.py 147: logger.error(f"Transcription failed: {str(e)}")
FailedRecord(e) == LogRecord("error", "Transcription failed", <<StrOf(e)>>)

\* app.py 148: raise HTTPException(status_code=500, detail=str(e))
ErrorStatus(e) == 500
ErrorDetail(e) == StrOf(e)
ErrorResponse(e) == [status |-> ErrorStatus(e), detail |-> ErrorDetail(e), body |-> <<>>]

\* Mutant: the except block hands back what was formatted so far.
ExceptResponsePartial(r) ==
    [status |-> 500, detail |-> StrOf(exc[r]),
     body |-> << [language |-> Info.language,
                  language_prob |-> Info.language_probability,
                  segments |-> lines[r],
                  full_text |-> Join(full_text[r])] >>]

\* What the except block of request r answers.
ExceptResponse(r) == ErrorResponse(exc[r])

\* app.py 146-148: except Exception as e
Except(r) ==
    /\ pc[r] = "except"
    /\ log' = [log EXCEPT ![r] = Append(@, FailedRecord(exc[r]))]
    /\ resp' = [resp EXCEPT ![r] = ExceptResponse(r)]
    /\ pc' = [pc EXCEPT ![r] = "finally"]
    /\ UNCHANGED <<model, health, disk, req, tmp_path, exc, fetchVars, asrVars, envVars>>

\* Mutant: the file is left behind.
RemoveScratchSkipped(d, p) == d

\* app.py 150-151: if os.path.exists(tmp_path): os.remove(tmp_path)
RemoveScratch(d, p) == IF d[p].exists THEN [d EXCEPT ![p] = NoFile] ELSE d

\* Mutant: the cleanup also runs while the segments are still consumed.
FinallyWhileConsuming(r) ==
    /\ pc[r] \in {"segments", "finally"}
    /\ disk' = RemoveScratch(disk, tmp_path[r])
    /\ disk' # disk
    /\ pc' = [pc EXCEPT ![r] = IF @ = "finally" THEN "done" ELSE @]
    /\ UNCHANGED <<model, health, log, req, tmp_path, exc, resp, fetchVars, asrVars,
                   envVars>>

\* app.py 149-151: finally; then the response (or the HTTPException) leaves
\* the handler.
Finally(r) ==
    /\ pc[r] = "finally"
    /\ disk' = RemoveScratch(disk, tmp_path[r])
    /\ pc' = [pc EXCEPT ![r] = "done"]
    /\ UNCHANGED <<model, health, log, req, tmp_path, exc, resp, fetchVars, asrVars,
                   envVars>>

(***************************************************************************)
(* The service.                                                            *)
(***************************************************************************)
Next ==
    \/ health_check
    \/ \E r \in Reqs :
         \/ Receive(r)
         \/ AllocateScratch(r)
         \/ DownloadStart(r)
         \/ Connect(r)
         \/ SessionConnect(r)
         \/ TreeConnect(r)
         \/ CreateOpen(r)
         \/ OpenLocal(r)
         \/ Read(r)
         \/ CloseHandle(r)
         \/ Disconnect(r)
         \/ Transcribe(r)
         \/ NextSegment(r)
         \/ Except(r)
         \/ Finally(r)

Spec == Init /\ [][Next]_vars
SpecConc == InitConc /\ [][Next]_vars

\* A call of format_timestamp (app.py 132; transcribe.py 38).
Format ==
    /\ fmtOut = <<>>
    /\ fmtOut' = format_timestamp(fmtIn)
    /\ UNCHANGED <<globalVars, pc, req, tmp_path, exc, resp, fetchVars, asrVars,
                   remoteSize, srvMode, segLimit, faulty, fmtIn>>

NextFmt == Format
SpecFmt == InitFmt /\ [][NextFmt]_vars

(***************************************************************************)
(* Properties.                                                             *)
(***************************************************************************)
Arrived(r) == pc[r] \notin {"absent", "idle"}
Responded(r) == pc[r] = "done"
InFetch(r) == pc[r] \in {"download", "connect", "session", "tree", "create",
                         "openlocal", "read", "close", "disconnect"}
FetchEnded(r) == fetchOut[r] # "none"
ScratchOf(r) == disk[tmp_path[r]]
ScratchExists(r) == tmp_path[r] # 0 /\ ScratchOf(r).exists /\ ScratchOf(r).owner = r

LastRead(r) == readLog[r][Len(readLog[r])].res
DataReads(rl) == Cardinality({ i \in 1 .. Len(rl) : rl[i].res.kind = "data" })
EndedByEof(res) == res.kind = "raise" /\ res.exc = SmbExc(STATUS_END_OF_FILE)
EndedByZero(res) == res.kind = "zero"
EndedByStatus(res) == /\ res.kind = "raise"
                      /\ res.exc.type = "SMBResponseException"
                      /\ res.exc.status # STATUS_END_OF_FILE
CleanRelease(r) == handle[r] = "Closed" /\ conn[r] = "disconnected"

\* C1: once a request that allocated a scratch file has been answered (200,
\* or an error raised in the fetch, in the model call or while the segments
\* are consumed), its scratch file is not on disk.
C1_ScratchRemovedAfterResponse ==
    \A r \in Reqs : Responded(r) /\ tmp_path[r] # 0 => ~ScratchExists(r)

\* C1 witness: a request that failed while the lazy segments were consumed,
\* after at least one segment, has been answered.
C1_Witness ==
    \E r \in Reqs : /\ Responded(r) /\ tmp_path[r] # 0
                    /\ resp[r].status = 500
                    /\ Len(yielded[r]) >= 1
                    /\ exc[r] = OtherExc("RuntimeError")

\* C2: a read that raises STATUS_END_OF_FILE and a read that returns no bytes
\* end the loop with no exception in flight, at any offset, and the fetch
\* succeeds if the handle and the connection are then released; a read that
\* raises another status ends the loop with that exception in flight and the
\* fetch raises; in both cases it was the last read issued.
C2_EofAndZeroEndFetch ==
    \A r \in Reqs : readLog[r] # <<>> =>
        LET last == LastRead(r) IN
        /\ (EndedByEof(last) \/ EndedByZero(last)) =>
              /\ pc[r] # "read"
              /\ pc[r] = "close" => exc[r] = NoExc
              /\ FetchEnded(r) /\ CleanRelease(r) => fetchOut[r] = "ok"
        /\ EndedByStatus(last) =>
              /\ pc[r] # "read"
              /\ pc[r] = "close" => exc[r] = last.exc
              /\ FetchEnded(r) => fetchOut[r] = "raised"
              /\ FetchEnded(r) /\ CleanRelease(r) => exc[r] = last.exc
        /\ \A i \in 1 .. Len(readLog[r]) - 1 : readLog[r][i].res.kind = "data"

\* C2 witness: a fetch has returned normally after a read at an offset
\* beyond 0 raised STATUS_END_OF_FILE.
C2_Witness ==
    \E r \in Reqs : /\ readLog[r] # <<>> /\ EndedByEof(LastRead(r))
                    /\ offset[r] > 0
                    /\ fetchOut[r] = "ok"

\* C3: against a server that serves full chunks, a fetch that returns
\* normally has made exactly ceil(N / 65536) reads that returned data and
\* leaves a scratch file of exactly the N bytes of the remote file.
C3_FullFetch ==
    \A r \in Reqs : srvMode[r] = "full" /\ fetchOut[r] = "ok" /\ pc[r] = "transcribe" =>
        /\ DataReads(readLog[r]) = CeilDiv(remoteSize[r], ChunkSize)
        /\ ScratchOf(r).exists
        /\ DataLen(ScratchOf(r).data) = remoteSize[r]
        /\ IsPrefixOfRemote(ScratchOf(r).data)

\* C3 witness: a file of more than one chunk whose last chunk is short has
\* been fetched.
C3_Witness ==
    \E r \in Reqs : /\ srvMode[r] = "full" /\ fetchOut[r] = "ok" /\ pc[r] = "transcribe"
                    /\ remoteSize[r] > ChunkSize
                    /\ remoteSize[r] % ChunkSize # 0

\* C4: connection.disconnect() is called at most once, and exactly once by
\* the time download_smb_file has returned or raised, whichever step failed.
C4_DisconnectExactlyOnce ==
    \A r \in Reqs :
        /\ disconnects[r] <= 1
        /\ conn[r] # "none" /\ ~InFetch(r) => disconnects[r] = 1
        /\ FetchEnded(r) => disconnects[r] = 1

\* C4 witness: the fetch has raised after connection.connect() failed.
C4_Witness ==
    \E r \in Reqs : /\ fetchOut[r] = "raised" /\ conn[r] = "disconnected"
                    /\ exc[r] = OtherExc("ConnectionError")
                    /\ disconnects[r] = 1

WasOpened(r) == handle[r] \in {"Opened", "Closed", "CloseFailed"}

\* C5, as claimed: every remote file handle the fetcher created is Closed
\* when the fetch has returned or raised, an error of the open request
\* included.
C5_EveryHandleClosed ==
    \A r \in Reqs : FetchEnded(r) /\ handle[r] # "none" => handle[r] = "Closed"

\* C5, amended: a handle whose open request succeeded has close() called on
\* it exactly once before the fetch returns or raises, on every exit path, and
\* is Closed unless that call itself raised; a handle whose open request
\* failed is never closed.
C5_OpenedHandleClosedOnce ==
    \A r \in Reqs :
        /\ closes[r] <= 1
        /\ handle[r] \in {"none", "Created"} => closes[r] = 0
        /\ FetchEnded(r) /\ WasOpened(r) =>
              closes[r] = 1 /\ handle[r] \in {"Closed", "CloseFailed"}

\* C5 witness: the fetch has raised the unexpected exception of a read, and
\* the handle is Closed.
C5_Witness ==
    \E r \in Reqs : /\ fetchOut[r] = "raised" /\ handle[r] = "Closed"
                    /\ exc[r] = OtherExc("TimeoutError")
                    /\ closes[r] = 1

NullConfig(r) == Arrived(r) /\ ~req[r].smb_config.present
NothingStarted(r) == tmp_path[r] = 0 /\ conn[r] = "none" /\ invocations[r] = 0

\* C6, as claimed: every request whose smb_config is null is answered 400,
\* with no scratch file, no connection and no model invocation.
C6_NullConfigAlways400 ==
    \A r \in Reqs : NullConfig(r) =>
        /\ Responded(r) => resp[r].status = 400
        /\ NothingStarted(r)

\* C6, amended: a request whose smb_config is null is answered 400 if the
\* model is loaded and 503 if it is not (the model is checked first); either
\* way no scratch file is created, no connection opened, no model invoked.
C6_NullConfigRejected ==
    \A r \in Reqs : NullConfig(r) =>
        /\ Responded(r)
        /\ resp[r].status = IF model = "None" THEN 503 ELSE 400
        /\ resp[r].body = <<>>
        /\ NothingStarted(r)
        /\ \A p \in Paths : ~(disk[p].exists /\ disk[p].owner = r)

\* C6 witness: a request with a null smb_config has been answered 400.
C6_Witness ==
    \E r \in Reqs : NullConfig(r) /\ Responded(r) /\ resp[r].status = 400

\* C7, as claimed: a fetch that failed because the remote file does not
\* exist is answered 404; one that failed on the logon, the share or another
\* status is answered 500.
C7_NotFoundIs404 ==
    \A r \in Reqs : Responded(r) /\ fetchOut[r] = "raised" =>
        /\ exc[r] = SmbExc(STATUS_OBJECT_NAME_NOT_FOUND) => resp[r].status = 404
        /\ exc[r] \in {SmbExc(STATUS_LOGON_FAILURE), SmbExc(STATUS_BAD_NETWORK_NAME),
                       SmbExc(STATUS_ACCESS_DENIED)} => resp[r].status = 500

HealthUnasked == [status |-> 0, body |-> <<>>]
OthersUnchanged ==
    UNCHANGED <<model, disk, log, pc, req, tmp_path, exc, resp, fetchVars, asrVars,
                envVars>>

\* C8: if the model failed to load, every GET /health answers 503 and every
\* POST /transcribe is answered 503 at once, whatever its body, with no
\* scratch file and no connection; if it loaded, GET /health answers 200 with
\* status ok and the model identifier; and a GET /health changes nothing but
\* its own answer.
C8_ModelGate ==
    /\ [](model = "None" =>
            /\ health.status \in {0, 503}
            /\ \A p \in Paths : ~disk[p].exists
            /\ \A r \in Reqs : Arrived(r) =>
                  /\ Responded(r) /\ resp[r].status = 503
                  /\ tmp_path[r] = 0 /\ conn[r] = "none")
    /\ [](model # "None" =>
            health \in {HealthUnasked,
                        [status |-> 200,
                         body |-> <<[status |-> "ok", model |-> MODEL_SIZE]>>]})
    /\ [][health' # health => OthersUnchanged]_vars

\* C8 witness: with no model, the probe has answered 503 and a request that
\* carries an smb_config has been answered 503.
C8_Witness ==
    /\ model = "None" /\ health.status = 503
    /\ \E r \in Reqs : /\ Responded(r) /\ req[r].smb_config.present
                       /\ resp[r].status = 503

\* C9: an answered request carries either a complete result (one entry for
\* each segment the model yielded before its generator ended, the language
\* and the full text) or an error with no body at all; segments formatted
\* before a fault are not returned.
C9_CompleteOrError ==
    \A r \in Reqs : Responded(r) =>
        \/ /\ resp[r].status = 200
           /\ Len(resp[r].body) = 1
           /\ Len(resp[r].body[1].segments) = Len(yielded[r])
           /\ exhausted[r]
           /\ exc[r] = NoExc
        \/ /\ resp[r].status \in {400, 500, 503}
           /\ resp[r].body = <<>>

\* C9 witness: a request whose model faulted after it had yielded a segment
\* has been answered.
C9_Witness ==
    \E r \in Reqs : /\ Responded(r) /\ Len(lines[r]) >= 1
                    /\ ~exhausted[r]
                    /\ exc[r] = OtherExc("RuntimeError")
                    /\ resp[r].status = 500

\* C10, as claimed: two requests whose fetches failed, for whatever cause,
\* receive identical responses.
C10_FetchFailuresIndistinguishable ==
    \A r1, r2 \in Reqs :
        /\ Responded(r1) /\ fetchOut[r1] = "raised"
        /\ Responded(r2) /\ fetchOut[r2] = "raised"
        /\ req[r1] = req[r2]
        => resp[r1] = resp[r2]

\* A request owns a scratch file from its allocation to its answer.
Live(r) == tmp_path[r] # 0 /\ ~Responded(r)
\* Request r takes the step.
Moved(r) == pc'[r] # pc[r] \/ readLog'[r] # readLog[r] \/ yielded'[r] # yielded[r]

\* C11: two requests whose lifetimes overlap hold distinct scratch paths;
\* the file of a live request exists and is its own, is the file the model
\* of that request is given, and is not written, truncated or deleted by a
\* step of any other request.
C11_ScratchFilesDisjoint ==
    /\ [](\A r1, r2 \in Reqs :
            r1 # r2 /\ Live(r1) /\ Live(r2) => tmp_path[r1] # tmp_path[r2])
    /\ [](\A r \in Reqs : Live(r) => ScratchExists(r))
    /\ [](\A r \in Reqs : invocations[r] > 0 => audio[r].exists /\ audio[r].owner = r)
    /\ [][\A r \in Reqs :
            Live(r) /\ ~Moved(r) => disk'[tmp_path[r]] = disk[tmp_path[r]]]_vars

\* C11 witness: two requests are in their fetch loops at once, one of them
\* with data already in its scratch file.
C11_Witness ==
    \E r1, r2 \in Reqs :
        /\ r1 # r2 /\ pc[r1] = "read" /\ pc[r2] = "read"
        /\ ScratchOf(r1).data # <<>>

Formatted == fmtOut # <<>>
WholeMicros(t) == t.sub = 0

\* C12, as claimed: for every input that is a whole number of microseconds
\* the MM field is floor(seconds / 60), an hour and a day and more included.
C12_MinutesNeverWrap ==
    Formatted /\ WholeMicros(fmtIn) => fmtOut[1] = fmtIn.sec \div 60

\* C13, as claimed: for every input SS is floor(seconds) mod 60, within
\* 0..59, and CC is floor(100 * fractional part), within 0..99: nothing is
\* rounded up into the next hundredth or carried into the seconds.
C13_SecondsAndHundredthsTruncated ==
    Formatted =>
        /\ fmtOut[2] = fmtIn.sec % 60
        /\ fmtOut[2] \in 0 .. 59
        /\ fmtOut[3] = fmtIn.us \div 10000
        /\ fmtOut[3] \in 0 .. 99

\* Where the i-th of the texts ts starts in their join by single spaces.
RECURSIVE StartIn(_, _)
StartIn(ts, i) == IF i = 1 THEN 1 ELSE StartIn(ts, i - 1) + Len(ts[i - 1]) + 1

\* j is the texts ts, in order, with exactly one space between neighbours.
IsSingleSpaceJoin(j, ts) ==
    /\ Len(j) = IF ts = <<>> THEN 0
                ELSE StartIn(ts, Len(ts)) + Len(ts[Len(ts)]) - 1
    /\ \A i \in 1 .. Len(ts) :
          /\ \A k \in 1 .. Len(ts[i]) : j[StartIn(ts, i) + k - 1] = ts[i][k]
          /\ i < Len(ts) => j[StartIn(ts, i) + Len(ts[i])] = " "

\* C14: a 200 response holds one entry per segment the model yielded, in the
\* order of the yields, each with format_timestamp of the segment's start and
\* its stripped text; full_text is the texts of those entries, in that order,
\* joined by exactly one space.
C14_SegmentsAndFullText ==
    \A r \in Reqs : Responded(r) /\ resp[r].status = 200 =>
        LET body == resp[r].body[1]
            texts == [i \in 1 .. Len(body.segments) |-> body.segments[i].text]
        IN  /\ Len(body.segments) = Len(yielded[r])
            /\ \A i \in 1 .. Len(yielded[r]) :
                  /\ body.segments[i].time = format_timestamp(yielded[r][i].start)
                  /\ body.segments[i].text = Strip(yielded[r][i].text)
            /\ IsSingleSpaceJoin(body.full_text, texts)

\* C14 witness: a 200 response with two different segments whose texts had
\* spaces to strip.
C14_Witness ==
    \E r \in Reqs : /\ Responded(r) /\ resp[r].status = 200
                    /\ Len(yielded[r]) >= 2
                    /\ yielded[r][1] # yielded[r][2]
                    /\ yielded[r][1].text # Strip(yielded[r][1].text)

Quiescent == \A r \in Reqs : pc[r] \in {"absent", "idle", "done"}

\* C15: no step of any request changes the loaded model; every file in the
\* temporary directory belongs to a request that is not answered yet; so
\* whenever no request is in progress, whatever the earlier ones did and
\* however they failed, the model and the directory are as after startup.
C15_NoSharedStateChanged ==
    /\ [][model' = model]_vars
    /\ [](\A p \in Paths : disk[p].exists => Live(disk[p].owner))
    /\ [](Quiescent => disk = [p \in Paths |-> NoFile])

\* C15 witness: a request answered 200 and a request that failed used the
\* same scratch path, hence one after the other.
C15_Witness ==
    \E r1, r2 \in Reqs :
        /\ Responded(r1) /\ resp[r1].status = 500
        /\ Responded(r2) /\ resp[r2].status = 200
        /\ tmp_path[r1] = tmp_path[r2]

\* The fields of a request's Connection Credentials.
CredentialFields(cfg) ==
    IF cfg.present
    THEN {cfg.host, cfg.share, cfg.username, cfg.password, cfg.file_path}
    ELSE {}

\* The strings a log record carries as they were given to the logger.
CleartextOf(rec) ==
    CASE rec.text = "Connecting to SMB" -> {rec.args[i] : i \in DOMAIN rec.args}
      [] rec.text = "Transcribing downloaded file" -> {rec.args[2]}
      [] rec.text = "Transcription failed" -> {rec.args[1].text}

Logged(r) == UNION {CleartextOf(log[r][i]) : i \in DOMAIN log[r]}

\* C16: no record of the log carries the host, the share name, the user
\* name, the password or the remote file path of a request as it was given.
C16_NoCredentialLogged ==
    \A r \in Reqs : Logged(r) \cap CredentialFields(req[r].smb_config) = {}

\* The position of a request in the order of its phases.
Rank(p) ==
    CASE p \in {"absent", "idle"} -> 0
      [] p = "alloc" -> 1
      [] p = "download" -> 2
      [] p \in {"connect", "session", "tree", "create", "openlocal", "read",
                "close", "disconnect"} -> 3
      [] p = "transcribe" -> 4
      [] p = "segments" -> 5
      [] p = "except" -> 6
      [] p = "finally" -> 7
      [] p = "done" -> 8

Failed(r) == exc[r] # NoExc \/ resp[r].status \notin {0, 200}

\* The parts of C17 that do not concern the segments.
AllocatedBeforeConnecting(r) == log[r] # <<>> \/ conn[r] # "none" => tmp_path[r] # 0
InvokedAfterFetch(r) ==
    invocations[r] > 0 =>
        /\ fetchOut[r] = "ok"
        /\ EndedByEof(LastRead(r)) \/ EndedByZero(LastRead(r))
        /\ srvMode[r] = "full" => DataLen(audio[r].data) = remoteSize[r]

\* C17, as claimed: the scratch file is allocated before the first
\* connection step, the model is invoked only on the file of a fetch that
\* returned normally, and no segment is formatted before the transcription
\* has produced its last segment.
C17_FormattingAfterTranscription ==
    \A r \in Reqs :
        /\ AllocatedBeforeConnecting(r)
        /\ InvokedAfterFetch(r)
        /\ lines[r] # <<>> => exhausted[r]

\* C17, amended: a request moves forward through Received, ScratchAllocated,
\* Fetching, Transcribing, Formatting, one phase at a time or to its error
\* answer; the scratch file is allocated before the first connection step;
\* the model is invoked only on the file of a fetch that returned normally;
\* a segment is formatted only after the model was invoked, as soon as the
\* lazy sequence has produced it, hence before the later segments are
\* produced; a request that has failed issues no further read, model
\* invocation or formatting and stays failed.
C17_PhasesInOrder ==
    /\ [](\A r \in Reqs :
            /\ AllocatedBeforeConnecting(r)
            /\ InvokedAfterFetch(r)
            /\ lines[r] # <<>> => invocations[r] = 1 /\ Len(lines[r]) = Len(yielded[r]))
    /\ [][\A r \in Reqs :
            /\ \/ Rank(pc'[r]) \in {Rank(pc[r]), Rank(pc[r]) + 1}
               \/ Rank(pc'[r]) > Rank(pc[r]) /\ pc'[r] \in {"except", "finally", "done"}
            /\ lines'[r] # lines[r] => pc[r] = "segments" /\ yielded'[r] # yielded[r]
            /\ Failed(r) =>
                  /\ Failed(r)'
                  /\ readLog'[r] = readLog[r]
                  /\ invocations'[r] = invocations[r]
                  /\ lines'[r] = lines[r]]_vars

\* C17 witness: a request formats a segment while the sequence of segments
\* has not ended, after a fetch of more than one read.
C17_Witness ==
    \E r \in Reqs : /\ pc[r] = "segments" /\ lines[r] # <<>> /\ ~exhausted[r]
                    /\ Len(readLog[r]) > 1

IsShortRead(res) == res.kind = "data" /\ res.n < ChunkSize

\* C18, as claimed: no read is issued after a read that returned fewer than
\* 65536 bytes or raised the end-of-file status, so every read but the last
\* returned a full chunk.
C18_ShortReadEndsLoop ==
    \A r \in Reqs : \A i \in 1 .. Len(readLog[r]) - 1 :
        readLog[r][i].res.kind = "data" /\ readLog[r][i].res.n = ChunkSize

\* C18, amended: the loop ends at the first read that returns no byte or
\* raises (the end-of-file status or anything else): no read is issued after
\* it.  A read that returns data, fewer than 65536 bytes included, is
\* appended and followed by another read at the advanced offset.
C18_EmptyReadEndsLoop ==
    \A r \in Reqs : readLog[r] # <<>> =>
        LET last == readLog[r][Len(readLog[r])] IN
        /\ \A i \in 1 .. Len(readLog[r]) - 1 : readLog[r][i].res.kind = "data"
        /\ last.res.kind # "data" => pc[r] # "read"
        /\ last.res.kind = "data" /\ exc[r] = NoExc =>
              pc[r] = "read" /\ offset[r] = last.off + last.res.n

\* C18 witness: against a conforming server, the last bytes of the file came
\* in a read of fewer than 65536 bytes and the read issued after it ended
\* the loop.
C18_Witness ==
    \E r \in Reqs :
        /\ srvMode[r] = "full" /\ Len(readLog[r]) > 1 /\ pc[r] = "close"
        /\ IsShortRead(readLog[r][Len(readLog[r]) - 1].res)
        /\ EndedByEof(LastRead(r))

\* C19: while a request fetches, the offset of the next read is the number
\* of bytes appended to its scratch file; the offsets of its reads increase
\* strictly; every read asks for 65536 bytes; the scratch file holds the
\* first bytes of the remote file, each piece starting where the previous one
\* ended, whatever the number of bytes the server returned per read.
C19_OffsetFollowsFile ==
    \A r \in Reqs :
        /\ pc[r] \in {"read", "close", "disconnect"} =>
              /\ ScratchExists(r)
              /\ offset[r] = DataLen(ScratchOf(r).data)
        /\ ScratchExists(r) =>
              /\ IsPrefixOfRemote(ScratchOf(r).data)
              /\ DataLen(ScratchOf(r).data) <= remoteSize[r]
        /\ \A i \in DOMAIN readLog[r] :
              /\ readLog[r][i].len = ChunkSize
              /\ \A j \in DOMAIN readLog[r] : i < j => readLog[r][i].off < readLog[r][j].off
        /\ readLog[r] # <<>> /\ pc[r] = "read" =>
              readLog[r][Len(readLog[r])].off < offset[r]

\* C19 witness: the server returned fewer bytes than it had, and the read
\* after it returned the bytes that follow.
C19_Witness ==
    \E r \in Reqs : \E i \in DOMAIN readLog[r] :
        /\ i < Len(readLog[r])
        /\ IsShortRead(readLog[r][i].res)
        /\ readLog[r][i].off + readLog[r][i].res.n < remoteSize[r]
        /\ readLog[r][i + 1].res.kind = "data"
        /\ readLog[r][i + 1].off = readLog[r][i].off + readLog[r][i].res.n
        /\ pc[r] = "read" /\ Len(ScratchOf(r).data) = i + 1

\* C20: a request calls connection.connect() at most once, file_open.create()
\* at most once and model.transcribe at most once; from its first failure on
\* it makes no connection, open, read or invocation, the model is not invoked
\* after a fetch that raised, and its answer is the error response.
C20_NoRetry ==
    /\ [](\A r \in Reqs :
            /\ connects[r] <= 1 /\ opens[r] <= 1 /\ invocations[r] <= 1
            /\ fetchOut[r] = "raised" => invocations[r] = 0
            /\ Responded(r) /\ exc[r] # NoExc => resp[r] = ErrorResponse(exc[r]))
    /\ [][\A r \in Reqs : exc[r] # NoExc =>
            /\ exc'[r] # NoExc
            /\ connects'[r] = connects[r] /\ opens'[r] = opens[r]
            /\ readLog'[r] = readLog[r] /\ invocations'[r] = invocations[r]]_vars

\* C20 witness: a request whose second read was refused has been answered
\* with the error, after one connection, one open and no invocation.
C20_Witness ==
    \E r \in Reqs :
        /\ Responded(r) /\ resp[r].status = 500
        /\ Len(readLog[r]) = 2 /\ EndedByStatus(LastRead(r))
        /\ connects[r] = 1 /\ opens[r] = 1 /\ invocations[r] = 0

PipelineEnded(r) == exhausted[r] \/ exc[r] # NoExc

\* C21: the scratch file of a request exists from its allocation, through
\* the fetch, the model call and the consumption of the segments, until the
\* finally block; it is removed by one step only, the finally block of its
\* request, which runs once, after the last segment was consumed or a
\* failure was raised; after that step the file is not on disk.
C21_ScratchRemovedOnceAtEnd ==
    /\ [](\A r \in Reqs :
            /\ Live(r) => ScratchExists(r)
            /\ Responded(r) /\ tmp_path[r] # 0 => ~ScratchExists(r)
            /\ pc[r] = "finally" /\ tmp_path[r] # 0 => PipelineEnded(r))
    /\ [][\A p \in Paths : disk[p].exists /\ ~disk'[p].exists =>
            LET r == disk[p].owner IN
            /\ tmp_path[r] = p
            /\ pc[r] = "finally" /\ pc'[r] = "done"
            /\ PipelineEnded(r)]_vars
    /\ [][\A r \in Reqs : pc[r] = "done" => pc'[r] = "done"]_vars

\* C21 witness: a request whose audio held segments has consumed the last
\* one, answered 200 and removed its scratch file.
C21_Witness ==
    \E r \in Reqs :
        /\ Responded(r) /\ resp[r].status = 200 /\ tmp_path[r] # 0
        /\ yielded[r] # <<>> /\ exhausted[r]
        /\ ~disk[tmp_path[r]].exists

\* C22: file_open.close() is called only on a handle whose open request
\* succeeded, at most once, and before connection.disconnect(); no read is
\* issued once close() or disconnect() was called; when close() itself
\* raises, disconnect() is still called.
C22_CloseBeforeDisconnect ==
    /\ [](\A r \in Reqs :
            /\ closes[r] <= 1
            /\ closes[r] = 1 => opens[r] = 1 /\ handle[r] \in {"Closed", "CloseFailed"}
            /\ handle[r] \in {"none", "Created"} => closes[r] = 0
            /\ disconnects[r] > 0 /\ WasOpened(r) => closes[r] = 1
            /\ handle[r] = "CloseFailed" /\ ~InFetch(r) =>
                  disconnects[r] = 1 /\ fetchOut[r] = "raised")
    /\ [][\A r \in Reqs :
            /\ closes'[r] # closes[r] => handle[r] = "Opened" /\ disconnects[r] = 0
            /\ readLog'[r] # readLog[r] =>
                  /\ handle[r] = "Opened" /\ closes[r] = 0
                  /\ conn[r] = "connected" /\ disconnects[r] = 0]_vars

\* C22 witness: after reads that returned the whole file, close() raised and
\* the connection was disconnected all the same.
C22_Witness ==
    \E r \in Reqs :
        /\ handle[r] = "CloseFailed" /\ closes[r] = 1
        /\ conn[r] = "disconnected" /\ disconnects[r] = 1
        /\ remoteSize[r] > 0 /\ DataLen(ScratchOf(r).data) = remoteSize[r]
        /\ pc[r] = "except"

=============================================================================
